---- MODULE Spec2Model ----
(***************************************************************************)
(* Model of scripts/process_bilibili_dialogue.py: the speaker labelling    *)
(* (label_speakers), the turn merge (merge_turns), the punctuation rule    *)
(* (punctuate), the stage segmentation (split_stage_ranges) and the two    *)
(* renderers that show stage ranges (build_lesson_plan,                     *)
(* build_observation_note).                                                 *)
(*                                                                         *)
(* A Python str is a sequence of characters.  The module text is ASCII, so *)
(* each character of the source is written as a token: its pinyin, with a  *)
(* gloss where two characters of the source share a pinyin.                *)
(*   "colon" U+FF1A  "comma" U+FF0C  "period" U+3002  "qmark" U+FF1F       *)
(*   "excl" U+FF01   "semi" U+FF1B   "dun" U+3001     "sp" U+0020          *)
(*   "ma" U+5417  "ne" U+5462  "shei" U+8C01  "wei" U+4E3A  "shen" U+4EC0  *)
(*   "me" U+4E48  "zen" U+600E  "you" U+6709  "mei" U+6CA1  "dui" U+5BF9   *)
(*   "bu" U+4E0D  "shi_is" U+662F  "shi_teacher" U+5E08  "shi_begin"       *)
(*   U+59CB  "shi_matter" U+4E8B  "lao" U+8001  "hao" U+597D  "xue" U+5B66 *)
(*   "sheng_life" U+751F  "sheng_sound" U+58F0  "quan" U+5168  "ban"       *)
(*   U+73ED; the remaining tokens are listed with the cue lists.           *)
(***************************************************************************)
EXTENDS Integers, Sequences, FiniteSets, TLC

VARIABLES
    labeled, mi, turns,                      \* merge_turns: argument, loop position, local
    text, ppc, once, twice,                  \* punctuate: argument, position, results
    lines, li, mode, expect_student, out,    \* label_speakers: argument, loop position, locals
    subtitle_body, spc, assigned_raw, assigned, kw_ranges, ranges, plan, note, outcome

mergeVars == <<labeled, mi, turns>>
punctVars == <<text, ppc, once, twice>>
labelVars == <<lines, li, mode, expect_student, out>>
stageVars == <<subtitle_body, spc, assigned_raw, assigned, kw_ranges, ranges, plan, note, outcome>>
vars == <<mergeVars, punctVars, labelVars, stageVars>>

(***************************************************************************)
(* Bounds of the model.                                                    *)
(***************************************************************************)
MaxLabeled == 3
MaxText == 4
MaxLines == 5
MaxBody == 5

\* All sequences over S of length at most n.
BoundedSeq(S, n) == UNION {[1..k -> S] : k \in 0..n}

(***************************************************************************)
(* str operations used by the source.                                      *)
(***************************************************************************)
\* k in s
Contains(s, k) == \E i \in 1..(Len(s) - Len(k) + 1) : SubSeq(s, i, i + Len(k) - 1) = k

\* s.endswith(k)
EndsWith(s, k) == Len(s) >= Len(k) /\ SubSeq(s, Len(s) - Len(k) + 1, Len(s)) = k

\* any(k in s for k in cues)
AnyIn(s, cues) == \E i \in DOMAIN cues : Contains(s, cues[i])

\* s.strip(chars): the longest prefix and suffix made of chars are removed.
RECURSIVE LStrip(_, _)
LStrip(s, chars) ==
    IF s # <<>> /\ Head(s) \in chars THEN LStrip(Tail(s), chars) ELSE s

RECURSIVE RStrip(_, _)
RStrip(s, chars) ==
    IF s # <<>> /\ s[Len(s)] \in chars THEN RStrip(SubSeq(s, 1, Len(s) - 1), chars) ELSE s

Strip(s, chars) == RStrip(LStrip(s, chars), chars)

\* str.strip() with no argument removes whitespace.
Whitespace == {"sp", "tab", "nl"}
StripWs(s) == Strip(s, Whitespace)

\* Position of the first c in s, 0 when there is none.
RECURSIVE IndexFrom(_, _, _)
IndexFrom(s, c, i) ==
    IF i > Len(s) THEN 0 ELSE IF s[i] = c THEN i ELSE IndexFrom(s, c, i + 1)
IndexOf(s, c) == IndexFrom(s, c, 1)

\* s.split(c, 1) of a string that holds c: the parts before and after the first c.
SplitOnce(s, c) ==
    LET p == IndexOf(s, c)
    IN  <<SubSeq(s, 1, p - 1), SubSeq(s, p + 1, Len(s))>>

(***************************************************************************)
(* merge_turns                                                             *)
(***************************************************************************)
Teacher == <<"lao", "shi_teacher">>
Student == <<"xue", "sheng_life">>
Class == <<"quan", "ban">>

\* f"{spk}:{line}" with the full-width colon
Labelled(spk, txt) == spk \o <<"colon">> \o txt

\* A plausible slip: the merged turn keeps only the newest text.
merge_line_overwrite(ts, line) ==
    IF IndexOf(line, "colon") = 0 THEN ts
    ELSE LET parts == SplitOnce(line, "colon")
             spk == StripWs(parts[1])
             txt == StripWs(parts[2])
         IN  IF txt = <<>> THEN ts
             ELSE IF ts # <<>> /\ ts[Len(ts)][1] = spk
                  THEN [ts EXCEPT ![Len(ts)] = <<spk, txt>>]
                  ELSE Append(ts, <<spk, txt>>)

\* A plausible slip: the speaker is compared before it is trimmed.
merge_line_untrimmed(ts, line) ==
    IF IndexOf(line, "colon") = 0 THEN ts
    ELSE LET parts == SplitOnce(line, "colon")
             spk == StripWs(parts[1])
             txt == StripWs(parts[2])
         IN  IF txt = <<>> THEN ts
             ELSE IF ts # <<>> /\ ts[Len(ts)][1] = parts[1]
                  THEN [ts EXCEPT ![Len(ts)] = <<spk, @[2] \o <<"comma">> \o txt>>]
                  ELSE Append(ts, <<spk, txt>>)

\* The body of the loop of merge_turns for one line.
merge_line(ts, line) ==
    IF IndexOf(line, "colon") = 0 THEN ts
    ELSE LET parts == SplitOnce(line, "colon")
             spk == StripWs(parts[1])
             txt == StripWs(parts[2])
         IN  IF txt = <<>> THEN ts
             ELSE IF ts # <<>> /\ ts[Len(ts)][1] = spk
                  THEN [ts EXCEPT ![Len(ts)] = <<spk, @[2] \o <<"comma">> \o txt>>]
                  ELSE Append(ts, <<spk, txt>>)

MergeTexts ==
    { <<>>, <<"sp">>, <<"a">>, <<"b", "sp">>, <<"a", "comma", "b">>, <<"colon", "b">> }

LabeledSamples ==
    { Labelled(s, t) : s \in {Teacher, Student}, t \in MergeTexts }
    \cup { <<"sp">> \o Labelled(Teacher, <<"a">>), <<"a">> }

IdleMerge == labeled = <<>> /\ mi = 0 /\ turns = <<>>

InitMerge ==
    /\ labeled \in BoundedSeq(LabeledSamples, MaxLabeled)
    /\ mi = 0
    /\ turns = <<>>

\* One iteration of "for line in labeled".
MergeLine ==
    /\ mi < Len(labeled)
    /\ mi' = mi + 1
    /\ turns' = merge_line(turns, labeled[mi + 1])
    /\ UNCHANGED <<labeled, punctVars, labelVars, stageVars>>

(***************************************************************************)
(* punctuate                                                               *)
(***************************************************************************)
\* re.sub(r"[,]{2,}", ",", text) on the full-width comma: every maximal run
\* of two or more commas becomes one comma.
RECURSIVE CollapseCommas(_)
CollapseCommas(s) ==
    IF s = <<>> THEN <<>>
    ELSE IF Head(s) = "comma" /\ Len(s) >= 2 /\ s[2] = "comma"
         THEN CollapseCommas(Tail(s))
         ELSE <<Head(s)>> \o CollapseCommas(Tail(s))

\* A plausible slip: only the separator and the blank are stripped.
PunctStripSeparatorsOnly == {"comma", "sp"}

\* The characters of the strip argument of punctuate.
PunctStripChars == {"comma", "period", "qmark", "excl", "semi", "dun", "sp"}

\* q_cues of punctuate: ma, ne, wei-shen-me, zen-me, shei, you-mei-you,
\* dui-bu-dui, shi-bu-shi.
q_cues ==
    << <<"ma">>, <<"ne">>, <<"wei", "shen", "me">>, <<"zen", "me">>, <<"shei">>,
       <<"you", "mei", "you">>, <<"dui", "bu", "dui">>, <<"shi_is", "bu", "shi_is">> >>

punctuate(t) ==
    LET core == Strip(CollapseCommas(t), PunctStripChars)
    IN  IF core = <<>> THEN <<>>
        ELSE IF AnyIn(core, q_cues) \/ EndsWith(core, <<"ma">>) \/ EndsWith(core, <<"ne">>)
             THEN core \o <<"qmark">>
             ELSE core \o <<"period">>

PunctChars == {"comma", "period", "qmark", "sp", "ma", "zen", "me", "x"}

IdlePunct == text = <<>> /\ ppc = "idle" /\ once = <<>> /\ twice = <<>>

InitPunct ==
    /\ text \in BoundedSeq(PunctChars, MaxText)
    /\ ppc = "start"
    /\ once = <<>>
    /\ twice = <<>>

\* punctuate(text), as build_verbatim applies it to a turn's text.
Punctuate ==
    /\ ppc = "start"
    /\ once' = punctuate(text)
    /\ ppc' = "once"
    /\ UNCHANGED <<text, twice, mergeVars, labelVars, stageVars>>

\* punctuate applied to its own output.
Repunctuate ==
    /\ ppc = "once"
    /\ twice' = punctuate(once)
    /\ ppc' = "twice"
    /\ UNCHANGED <<text, once, mergeVars, labelVars, stageVars>>

(***************************************************************************)
(* label_speakers                                                          *)
(***************************************************************************)
\* tong-xue-men, jin-tian-zhe-jie-ke, wo-men-yi-qi, wo-qing, kai-shi-ba,
\* da-dian-sheng-yin, shei-neng, shei-lai, wei-shen-me, dui-bu-dui, xia-ke
teacher_cues ==
    << <<"tong", "xue", "men">>, <<"jin_now", "tian", "zhe", "jie_section", "ke">>,
       <<"wo", "men", "yi_one", "qi">>, <<"wo", "qing">>, <<"kai", "shi_begin", "ba">>,
       <<"da", "dian", "sheng_sound", "yin">>, <<"shei", "neng">>, <<"shei", "lai">>,
       <<"wei", "shen", "me">>, <<"dui", "bu", "dui">>, <<"xia", "ke">> >>

\* lao-shi-hao, lao-shi-zai-jian, tong-yi-ma, da-jia-yi-qi-shuo
class_cues ==
    << <<"lao", "shi_teacher", "hao">>, <<"lao", "shi_teacher", "zai", "jian">>,
       <<"tong", "yi_idea", "ma">>, <<"da", "jia", "yi_one", "qi", "shuo">> >>

\* ma, ne, shei, wei-shen-me, zen-me, you-mei-you
question_cues ==
    << <<"ma">>, <<"ne">>, <<"shei">>, <<"wei", "shen", "me">>, <<"zen", "me">>,
       <<"you", "mei", "you">> >>

\* The condition of line 89 on the line itself.
IsQuestion(line) ==
    EndsWith(line, <<"ma">>) \/ EndsWith(line, <<"ne">>) \/ AnyIn(line, question_cues)

\* Lines 79-87: the speaker of a line.
SpeakerFor(line, md, expect) ==
    IF AnyIn(line, class_cues) THEN Class
    ELSE IF AnyIn(line, teacher_cues) THEN Teacher
    ELSE IF expect THEN Student
    ELSE md

\* A plausible slip: every Teacher line that is no question clears the flag.
ExpectAfterTeacherClears(line, spk, expect) ==
    IF AnyIn(line, class_cues) THEN FALSE
    ELSE IF spk = Teacher THEN IsQuestion(line)
    ELSE FALSE

\* Lines 79-92: expect_student after a line labelled spk.
ExpectAfter(line, spk, expect) ==
    LET e1 == IF AnyIn(line, class_cues) THEN FALSE ELSE expect
    IN  IF spk = Teacher /\ IsQuestion(line) THEN TRUE
        ELSE IF spk \in {Student, Class} THEN FALSE
        ELSE e1

\* Lines 94-95: mode after a line labelled spk.
ModeAfter(spk, md) == IF spk \in {Teacher, Student} THEN spk ELSE md

LineSamples ==
    { <<"shei", "lai">>,                                \* teacher cue, question
      <<"xia", "ke">>,                                  \* teacher cue, no question
      <<"x">>,                                          \* no cue
      <<"x", "ne">>,                                    \* no cue, question ending
      <<"lao", "shi_teacher", "hao">>,                  \* class cue
      <<"xia", "ke", "tong", "yi_idea", "ma">> }        \* class cue and teacher cue

IdleLabel == lines = <<>> /\ li = 0 /\ mode = Teacher /\ expect_student = FALSE /\ out = <<>>

InitLabel ==
    /\ lines \in BoundedSeq(LineSamples, MaxLines)
    /\ li = 0
    /\ mode = Teacher
    /\ expect_student = FALSE
    /\ out = <<>>

\* One iteration of "for line in lines".
LabelLine ==
    /\ li < Len(lines)
    /\ LET line == lines[li + 1]
           spk == SpeakerFor(line, mode, expect_student)
       IN  /\ expect_student' = ExpectAfter(line, spk, expect_student)
           /\ mode' = ModeAfter(spk, mode)
           /\ out' = Append(out, Labelled(spk, line))
    /\ li' = li + 1
    /\ UNCHANGED <<lines, mergeVars, punctVars, stageVars>>

(***************************************************************************)
(* split_stage_ranges                                                      *)
(***************************************************************************)
\* stage_defs: the five stage names in order, each with its keywords.
\* The names are dictionary keys only and are written as one token each.
\*  0 dao-ru: jin-tian-zhe-jie-ke, zou-jin, shei-neng-jiang, shang-ke
\*  1 gu-shi: cong-qian, cao-cao-xiang-cheng, ta-xian, wei-shen-me, zhi-jie-cheng
\*  2 tan-jiu: tian-ping, xi-gua, bo-luo, tao-zi, A-deng-yu-B, deng-liang
\*  3 qian-yi: sheng-huo-zhong, xiao-zu, ni-men-de-gu-shi, zong-jie, xing-ming-pai
\*  4 hui-kou: cao-chong-cheng-xiang, fen-liang, zong-liang, xia-ke, lao-shi-zai-jian
stage_defs ==
    << [name |-> "daoru_yu_renwu_jianli",
        kws |-> << <<"jin_now", "tian", "zhe", "jie_section", "ke">>, <<"zou", "jin_enter">>,
                   <<"shei", "neng", "jiang">>, <<"shang", "ke">> >>],
       [name |-> "gushi_fushu_yu_wenti_jujiao",
        kws |-> << <<"cong", "qian">>, <<"cao_surname", "cao_grasp", "xiang_think", "cheng">>,
                   <<"ta", "xian">>, <<"wei", "shen", "me">>, <<"zhi", "jie_connect", "cheng">> >>],
       [name |-> "tanjiu_jianmo",
        kws |-> << <<"tian", "ping">>, <<"xi", "gua">>, <<"bo", "luo">>, <<"tao", "zi">>,
                   <<"A", "deng", "yu", "B">>, <<"deng", "liang">> >>],
       [name |-> "qianyi_lianxi_yu_biaoda",
        kws |-> << <<"sheng_life", "huo", "zhong">>, <<"xiao", "zu">>,
                   <<"ni", "men", "de", "gu", "shi_matter">>, <<"zong", "jie_knot">>,
                   <<"xing", "ming", "pai">> >>],
       [name |-> "huikou_chengxiang_yu_zongjie_shoushu",
        kws |-> << <<"cao_surname", "chong", "cheng", "xiang_elephant">>, <<"fen", "liang">>,
                   <<"zong", "liang">>, <<"xia", "ke">>, <<"lao", "shi_teacher", "zai", "jian">> >>] >>

\* names = [x[0] for x in stage_defs]; stage i of the source is names[i + 1].
names == [i \in 1..Len(stage_defs) |-> stage_defs[i].name]

Abs(x) == IF x < 0 THEN -x ELSE x
Min2(a, b) == IF a < b THEN a ELSE b
Max2(a, b) == IF a > b THEN a ELSE b

\* The decimal digits of a natural number, one token each.
RECURSIVE Digits(_)
Digits(n) == IF n < 10 THEN <<ToString(n)>> ELSE Append(Digits(n \div 10), ToString(n % 10))

\* str(x) of a content: a string is itself, a number its digits.
Str(c) == IF c.isstr THEN c.val ELSE Digits(c.val)

\* sum(1 for k in kws if k in txt)
Score(txt, kws) == Cardinality({i \in DOMAIN kws : Contains(txt, kws[i])})

\* Line 189: the score of each stage (from 0) for a text.
Scores(txt) == [i \in 0..4 |-> Score(txt, stage_defs[i + 1].kws)]

\* Lines 190-196: the stage index chosen from the scores, given prev.
PickStage(scores, prev) ==
    LET mx == CHOOSE m \in {scores[i] : i \in 0..4} : \A i \in 0..4 : scores[i] <= m
        cands == {i \in 0..4 : scores[i] = mx}
        \* min(cands, key=...) takes the first of the nearest candidates
        near == CHOOSE i \in cands :
                    \A j \in cands : Abs(i - prev) < Abs(j - prev)
                                     \/ (Abs(i - prev) = Abs(j - prev) /\ i <= j)
        idx == IF mx = 0 THEN prev ELSE near
    IN  Max2(prev - 1, Min2(prev + 1, idx))

\* Lines 188-196: the stage index of one row, given prev (the scores are
\* bound once, as the source computes them once).
StageIndex(row, prev) ==
    CHOOSE idx \in {PickStage(sc, prev) : sc \in {Scores(Str(row.content))}} : TRUE

\* Lines 185-198: the first loop from row k on; acc is assigned so far.
RECURSIVE FirstPassFrom(_, _, _)
FirstPassFrom(body, k, acc) ==
    IF k > Len(body) THEN acc
    ELSE FirstPassFrom(body, k + 1,
             Append(acc, StageIndex(body[k], IF k = 1 THEN 0 ELSE acc[k - 1])))

FirstPass(body) == FirstPassFrom(body, 1, <<>>)

\* A plausible slip: the pass compares with the predecessor's first-pass
\* value instead of its corrected value.
RECURSIVE MonotonicPassStaleFrom(_, _, _)
MonotonicPassStaleFrom(a, k, acc) ==
    IF k > Len(a) THEN acc
    ELSE MonotonicPassStaleFrom(a, k + 1,
             Append(acc, IF k > 1 /\ a[k] < a[k - 1] THEN a[k - 1] ELSE a[k]))

MonotonicPassStale(a) == MonotonicPassStaleFrom(a, 1, <<>>)

\* Lines 200-202: the second loop from row k on; acc holds the rows already
\* corrected.  The loop writes in place, so each row is compared with the
\* corrected value of its predecessor.
RECURSIVE MonotonicPassFrom(_, _, _)
MonotonicPassFrom(a, k, acc) ==
    IF k > Len(a) THEN acc
    ELSE MonotonicPassFrom(a, k + 1,
             Append(acc, IF k > 1 /\ a[k] < acc[k - 1] THEN acc[k - 1] ELSE a[k]))

MonotonicPass(a) == MonotonicPassFrom(a, 1, <<>>)

\* Lines 207-211: the third loop from row k on (i = k - 1 in the source);
\* acc are the chunks closed so far, cur and s the open chunk.  Line 212
\* closes the open chunk at the last row.
RECURSIVE ChunksFrom(_, _, _, _, _)
ChunksFrom(a, k, cur, s, acc) ==
    IF k > Len(a) THEN Append(acc, <<cur, s, Len(a) - 1>>)
    ELSE IF a[k] # cur
         THEN ChunksFrom(a, k + 1, a[k], k - 1, Append(acc, <<cur, s, k - 2>>))
         ELSE ChunksFrom(a, k + 1, cur, s, acc)

\* A plausible slip: a chunk is closed at i instead of i - 1.
ChunksLateEnd(a) ==
    LET cs == ChunksFrom(a, 1, a[1], 0, <<>>)
    IN  [j \in 1..Len(cs) |->
            IF j < Len(cs) THEN <<cs[j][1], cs[j][2], cs[j][3] + 1>> ELSE cs[j]]

\* Lines 204-212: the chunks (stage, s, e), indices from 0.
Chunks(a) == ChunksFrom(a, 1, a[1], 0, <<>>)

\* Lines 214-220: the dictionary built from chunk k on.
RECURSIVE RangesFrom(_, _, _)
RangesFrom(chunks, k, r) ==
    IF k > Len(chunks) THEN r
    ELSE RangesFrom(chunks, k + 1,
             IF stage_defs[chunks[k][1] + 1].name \in DOMAIN r
             THEN [r EXCEPT ![stage_defs[chunks[k][1] + 1].name] = <<@[1], chunks[k][3]>>]
             ELSE r @@ (stage_defs[chunks[k][1] + 1].name :> <<chunks[k][2], chunks[k][3]>>))

RangesOf(chunks) == RangesFrom(chunks, 1, <<>>)

\* int(n * f) for f = num/100; for the n of this model the float product
\* truncates to the exact floor.
Cut(n, num) == (n * num) \div 100

\* A plausible slip: the end of a range is the next cut itself.
FallbackHalfOpen(n) ==
    LET cuts == <<0, Cut(n, 12), Cut(n, 30), Cut(n, 62), Cut(n, 84), n>>
        kept == {i \in 1..5 : cuts[i] < cuts[i + 1]}
    IN  [nm \in {names[i] : i \in kept} |->
            LET i == CHOOSE j \in kept : names[j] = nm
            IN  <<cuts[i], cuts[i + 1]>>]

\* Lines 223-226: the proportional split.
Fallback(n) ==
    LET cuts == <<0, Cut(n, 12), Cut(n, 30), Cut(n, 62), Cut(n, 84), n>>
        kept == {i \in 1..5 : cuts[i] < cuts[i + 1]}
    IN  [nm \in {names[i] : i \in kept} |->
            LET i == CHOOSE j \in kept : names[j] = nm
            IN  <<cuts[i], cuts[i + 1] - 1>>]

\* A plausible slip: the fallback is taken only below four recovered stages.
NeedsFallbackBelowFour(r) == Cardinality(DOMAIN r) < 4

\* Line 222: len(ranges) < 5
NeedsFallback(r) == Cardinality(DOMAIN r) < 5

\* Lines 222-227: the returned dictionary.
Returned(n, kw) == IF NeedsFallback(kw) THEN Fallback(n) ELSE kw

\* The locals of split_stage_ranges at its return.
Locals(body, raw, a, kw) ==
    [raw |-> raw, assigned |-> a, kw |-> kw, ranges |-> Returned(Len(body), kw)]

LocalsFromAssigned(body, raw, a) == Locals(body, raw, a, RangesOf(Chunks(a)))

LocalsFromRaw(body, raw) == LocalsFromAssigned(body, raw, MonotonicPass(raw))

split_stage_ranges(body) ==
    IF body = <<>>
    THEN [raw |-> <<>>, assigned |-> <<>>, kw |-> <<>>, ranges |-> <<>>]
    ELSE LocalsFromRaw(body, FirstPass(body))

(***************************************************************************)
(* fmt_time, range_label, short_text and the two renderers                 *)
(***************************************************************************)
\* f"{n:02d}"
Pad2(n) == IF n < 10 THEN <<"0">> \o Digits(n) ELSE Digits(n)

\* fmt_time of a whole number of seconds: "hh:mm:ss", or "mm:ss" when the
\* hour is 0.
fmt_time(sec) ==
    LET t == Max2(0, sec)
        sc == t % 60
        m0 == t \div 60
        h == m0 \div 60
        m == m0 % 60
    IN  IF h # 0 THEN Pad2(h) \o <<":">> \o Pad2(m) \o <<":">> \o Pad2(sc)
        ELSE Pad2(m) \o <<":">> \o Pad2(sc)

\* f"{x:.1f}" of x minutes given in tenths.  The times of this model are
\* multiples of 6 s, so the tenths are exact.
OneDecimal(tenths) == Digits(tenths \div 10) \o <<".">> \o Digits(tenths % 10)

\* range_label: "t0 - t1, yue X.X fen-zhong".
range_label(body, rng) ==
    LET t0 == body[rng[1] + 1].from
        t1 == body[rng[2] + 1].to
    IN  fmt_time(t0) \o <<"sp", "-", "sp">> \o fmt_time(t1) \o <<"comma", "yue">>
        \o OneDecimal((Max2(0, t1 - t0) * 10) \div 60) \o <<"fen", "zhong_clock">>

\* The marker wei-shi-bie shown for a stage without a range.
Unrecognized == <<"wei_not", "shi_know", "bie">>

\* ranges.get(name, default)
Get(r, name, default) == IF name \in DOMAIN r THEN r[name] ELSE default

\* Lines 247-251: t1..t5 of build_lesson_plan.
LessonPlanLabels(body, r) ==
    [i \in 1..5 |->
        IF body # <<>> THEN range_label(body, Get(r, names[i], <<0, 0>>)) ELSE Unrecognized]

\* re.sub(r"\s+", "", text)
RECURSIVE RemoveWs(_)
RemoveWs(s) ==
    IF s = <<>> THEN <<>>
    ELSE IF Head(s) \in Whitespace THEN RemoveWs(Tail(s))
         ELSE <<Head(s)>> \o RemoveWs(Tail(s))

\* short_text(text, n); "ellipsis" is U+2026.
short_text(t, n) ==
    LET u == RemoveWs(t)
    IN  IF Len(u) <= n THEN u ELSE SubSeq(u, 1, n) \o <<"ellipsis", "ellipsis">>

\* sep.join(parts)
RECURSIVE Join(_, _)
Join(parts, sep) ==
    IF parts = <<>> THEN <<>>
    ELSE IF Len(parts) = 1 THEN parts[1]
         ELSE parts[1] \o <<sep>> \o Join(Tail(parts), sep)

\* subtitle_body[s:min(e + 1, s + 2)], indices from 0
Sampled(body, rng) ==
    SubSeq(body, rng[1] + 1, Min2(Min2(rng[2] + 1, rng[1] + 2), Len(body)))

\* Lines 353-361: the fragment shown for each stage by build_observation_note.
NoteFragments(body, r) ==
    [i \in 1..5 |->
        IF names[i] \notin DOMAIN r THEN Unrecognized
        ELSE LET rows == Sampled(body, r[names[i]])
             IN  short_text(Join([k \in 1..Len(rows) |-> rows[k].content.val], "semi"), 72)]

\* str.join raises TypeError on an item that is no str.
JoinRaises(body, r) ==
    \E i \in 1..5 :
        /\ names[i] \in DOMAIN r
        /\ \E k \in DOMAIN Sampled(body, r[names[i]]) :
               ~Sampled(body, r[names[i]])[k].content.isstr

(***************************************************************************)
(* Subtitle records.  A record is {"content", "from", "to"}; a content is   *)
(* a string, or (a malformed record) a number.                              *)
(***************************************************************************)
RowKinds == {"plain", "story", "model", "apply", "tie", "bad"}

\* plain: no keyword; story, model, apply: one keyword of stage 1, 2, 3;
\* tie: shang-ke (stage 0) and xia-ke (stage 4), one keyword each.
ContentOf(kind) ==
    CASE kind = "plain" -> [isstr |-> TRUE, val |-> <<"x">>]
      [] kind = "story" -> [isstr |-> TRUE, val |-> <<"cong", "qian">>]
      [] kind = "model" -> [isstr |-> TRUE, val |-> <<"tian", "ping">>]
      [] kind = "apply" -> [isstr |-> TRUE, val |-> <<"xiao", "zu">>]
      [] kind = "tie" -> [isstr |-> TRUE, val |-> <<"shang", "ke", "sp", "xia", "ke">>]
      [] kind = "bad" -> [isstr |-> FALSE, val |-> 7]

\* The i-th record of a track: 25 minutes long, and ending before it starts
\* when it is malformed.
MkRow(kind, i) ==
    [content |-> ContentOf(kind),
     from |-> 1500 * (i - 1),
     to |-> IF kind = "bad" THEN 1500 * (i - 1) - 6 ELSE 1500 * i]

Malformed(row) == ~row.content.isstr \/ row.to < row.from

IdleStage ==
    /\ subtitle_body = <<>>
    /\ spc = "idle"
    /\ assigned_raw = <<>>
    /\ assigned = <<>>
    /\ kw_ranges = <<>>
    /\ ranges = <<>>
    /\ plan = <<>>
    /\ note = <<>>
    /\ outcome = "none"

InitStage ==
    /\ \E ks \in BoundedSeq(RowKinds, MaxBody) :
           subtitle_body = [i \in 1..Len(ks) |-> MkRow(ks[i], i)]
    /\ spc = "start"
    /\ assigned_raw = <<>>
    /\ assigned = <<>>
    /\ kw_ranges = <<>>
    /\ ranges = <<>>
    /\ plan = <<>>
    /\ note = <<>>
    /\ outcome = "none"

\* The call split_stage_ranges(subtitle_body) and its locals at the return.
CallSplit ==
    \E r \in {split_stage_ranges(subtitle_body)} :
        /\ assigned_raw' = r.raw
        /\ assigned' = r.assigned
        /\ kw_ranges' = r.kw
        /\ ranges' = r.ranges

SplitStageRanges ==
    /\ spc = "start"
    /\ CallSplit
    /\ spc' = "split"
    /\ outcome' = "returned"
    /\ UNCHANGED <<subtitle_body, plan, note, mergeVars, punctVars, labelVars>>

BuildLessonPlan ==
    /\ spc = "start"
    /\ CallSplit
    /\ plan' = LessonPlanLabels(subtitle_body, ranges')
    /\ spc' = "plan"
    /\ outcome' = "returned"
    /\ UNCHANGED <<subtitle_body, note, mergeVars, punctVars, labelVars>>

BuildObservationNote ==
    /\ spc = "start"
    /\ CallSplit
    /\ IF JoinRaises(subtitle_body, ranges')
       THEN note' = <<>> /\ outcome' = "TypeError"
       ELSE note' = NoteFragments(subtitle_body, ranges') /\ outcome' = "returned"
    /\ spc' = "note"
    /\ UNCHANGED <<subtitle_body, plan, mergeVars, punctVars, labelVars>>

(***************************************************************************)
(* Specifications, one per function under study.                           *)
(***************************************************************************)
MergeInit == InitMerge /\ IdlePunct /\ IdleLabel /\ IdleStage
MergeNext == MergeLine
MergeSpec == MergeInit /\ [][MergeNext]_vars

PunctInit == IdleMerge /\ InitPunct /\ IdleLabel /\ IdleStage
PunctNext == Punctuate \/ Repunctuate
PunctSpec == PunctInit /\ [][PunctNext]_vars

LabelInit == IdleMerge /\ IdlePunct /\ InitLabel /\ IdleStage
LabelNext == LabelLine
LabelSpec == LabelInit /\ [][LabelNext]_vars

StageInit == IdleMerge /\ IdlePunct /\ IdleLabel /\ InitStage
StageNext == SplitStageRanges \/ BuildLessonPlan \/ BuildObservationNote
StageSpec == StageInit /\ [][StageNext]_vars

Init == MergeInit \/ PunctInit \/ LabelInit \/ StageInit
Next == MergeNext \/ PunctNext \/ LabelNext \/ StageNext
Spec == Init /\ [][Next]_vars

(***************************************************************************)
(* Properties                                                              *)
(***************************************************************************)
\* The speaker and the text of a labelled line "speaker:text".
SpeakerOf(l) == SubSeq(l, 1, IndexOf(l, "colon") - 1)
LineText(l) ==
    IF IndexOf(l, "colon") = 0 THEN <<>> ELSE StripWs(SubSeq(l, IndexOf(l, "colon") + 1, Len(l)))

RECURSIVE Concat(_)
Concat(ss) == IF ss = <<>> THEN <<>> ELSE Head(ss) \o Concat(Tail(ss))

RECURSIVE RemoveSeparators(_)
RemoveSeparators(s) ==
    IF s = <<>> THEN <<>>
    ELSE IF Head(s) = "comma" THEN RemoveSeparators(Tail(s))
         ELSE <<Head(s)>> \o RemoveSeparators(Tail(s))

\* The lines read so far by merge_turns, and those with a text.
KeptLines == {k \in 1..mi : LineText(labeled[k]) # <<>>}
InputTexts == Concat([k \in 1..mi |-> LineText(labeled[k])])
TurnTexts == Concat([k \in 1..Len(turns) |-> turns[k][2]])

\* C1: after any number of lines read by merge_turns, lines with an empty
\* text included, no two adjacent turns have the same speaker.
C1_TurnMaximality ==
    \A k \in 1..(Len(turns) - 1) : turns[k][1] # turns[k + 1][1]

\* Three lines read, the middle one dropped for its empty text, the other two
\* of one speaker and merged into a single turn.
C1_Witness ==
    /\ mi = 3
    /\ LineText(labeled[1]) # <<>>
    /\ LineText(labeled[2]) = <<>>
    /\ IndexOf(labeled[2], "colon") # 0
    /\ LineText(labeled[3]) # <<>>
    /\ Len(turns) = 1

\* C2: the texts of the turns, concatenated in order with the separators
\* taken out, are the texts (trimmed, the empty ones left out) of the lines
\* read, concatenated in order; and the turns hold exactly one separator more
\* than the lines for every line merged into the turn before it.
C2_ContentPreserved ==
    /\ RemoveSeparators(TurnTexts) = RemoveSeparators(InputTexts)
    /\ Len(TurnTexts) = Len(InputTexts) + (Cardinality(KeptLines) - Len(turns))

\* Three lines with a text read, one of them merged, one holding a separator
\* of its own.
C2_Witness ==
    /\ mi = 3
    /\ Cardinality(KeptLines) = 3
    /\ Len(turns) = 2
    /\ \E k \in 1..3 : Contains(LineText(labeled[k]), <<"comma">>)

\* The terminal marks a text ends with.
RECURSIVE TerminalMarks(_)
TerminalMarks(s) ==
    IF s # <<>> /\ s[Len(s)] \in {"qmark", "period"}
    THEN Append(TerminalMarks(SubSeq(s, 1, Len(s) - 1)), s[Len(s)])
    ELSE <<>>

\* C3: when punctuate(t) is not empty, punctuate(punctuate(t)) ends with the
\* same single terminal mark as punctuate(t), and with no second one.
C3_PunctuateIdempotent ==
    (ppc = "twice" /\ once # <<>>) =>
        /\ Len(TerminalMarks(once)) = 1
        /\ TerminalMarks(twice) = TerminalMarks(once)

\* A question whose text came with a full stop, punctuated twice.
C3_Witness ==
    /\ ppc = "twice"
    /\ text # <<>>
    /\ text[Len(text)] = "period"
    /\ once # <<>>
    /\ once[Len(once)] = "qmark"

\* C4: when line i is labelled Teacher and is a question, every line between
\* i and j holds a teacher cue and no class cue, and line j holds neither a
\* class cue nor a teacher cue, line j is labelled Student.
C4_TeacherHoldOver ==
    \A i \in 1..li : \A j \in (i + 1)..li :
        ( /\ SpeakerOf(out[i]) = Teacher
          /\ IsQuestion(lines[i])
          /\ \A k \in (i + 1)..(j - 1) :
                 AnyIn(lines[k], teacher_cues) /\ ~AnyIn(lines[k], class_cues)
          /\ ~AnyIn(lines[j], class_cues)
          /\ ~AnyIn(lines[j], teacher_cues) )
        => SpeakerOf(out[j]) = Student

\* A Teacher question, then a Teacher line that is no question, then a line
\* without cue, which is labelled Student.
C4_Witness ==
    /\ li >= 3
    /\ SpeakerOf(out[1]) = Teacher
    /\ IsQuestion(lines[1])
    /\ AnyIn(lines[2], teacher_cues)
    /\ ~AnyIn(lines[2], class_cues)
    /\ ~IsQuestion(lines[2])
    /\ ~AnyIn(lines[3], class_cues)
    /\ ~AnyIn(lines[3], teacher_cues)
    /\ SpeakerOf(out[3]) = Student

\* The stage of a name, from 0, and the names of a dictionary in stage order.
Ordinal(nm) == (CHOOSE i \in 1..5 : names[i] = nm) - 1
Called == spc \in {"split", "plan", "note"}
NumRows == Len(subtitle_body)
Recovered == {assigned[i] : i \in DOMAIN assigned}

\* The proportional split of n rows as the specification states it.
ProportionalCuts(n) ==
    <<0, (12 * n) \div 100, (30 * n) \div 100, (62 * n) \div 100, (84 * n) \div 100, n>>
ProportionalSplit(n) ==
    [nm \in {names[i] : i \in {j \in 1..5 : ProportionalCuts(n)[j] < ProportionalCuts(n)[j + 1]}} |->
        <<ProportionalCuts(n)[Ordinal(nm) + 1], ProportionalCuts(n)[Ordinal(nm) + 2] - 1>>]

\* C5: for a track that is not empty and for which fewer than 5 stages are
\* recovered by the keywords, split_stage_ranges returns the proportional
\* split of the number of rows.
C5_FallbackMapping ==
    (Called /\ NumRows > 0 /\ Cardinality(Recovered) < 5) =>
        ranges = ProportionalSplit(NumRows)

\* Four of the five stages recovered by the keywords, and none of their
\* ranges returned as it was.
C5_Witness ==
    /\ spc = "split"
    /\ Cardinality(Recovered) = 4
    /\ Cardinality(DOMAIN kw_ranges) = 4
    /\ \A nm \in DOMAIN kw_ranges : nm \notin DOMAIN ranges \/ ranges[nm] # kw_ranges[nm]

\* C6: the returned dictionary has at most 5 ranges, keyed by stage names,
\* each within 0..n-1 with start <= end; ranges of different names share no
\* index; ordered by start, their stages do not decrease.
C6_RangesWellFormed ==
    Called =>
        /\ DOMAIN ranges \subseteq {names[i] : i \in 1..5}
        /\ Cardinality(DOMAIN ranges) <= 5
        /\ \A nm \in DOMAIN ranges :
               0 <= ranges[nm][1] /\ ranges[nm][1] <= ranges[nm][2] /\ ranges[nm][2] <= NumRows - 1
        /\ \A a \in DOMAIN ranges : \A b \in DOMAIN ranges :
               a # b => (ranges[a][2] < ranges[b][1] \/ ranges[b][2] < ranges[a][1])
        /\ \A a \in DOMAIN ranges : \A b \in DOMAIN ranges :
               ranges[a][1] < ranges[b][1] => Ordinal(a) <= Ordinal(b)

\* The keyword path: five stages recovered and their ranges returned.
C6_Witness ==
    /\ spc = "split"
    /\ Cardinality(Recovered) = 5
    /\ Cardinality(DOMAIN ranges) = 5
    /\ ranges = kw_ranges

\* C8: after the monotonicity pass the stage indices of the rows do not
\* decrease.
C8_AssignedMonotonic ==
    Called => \A i \in 2..Len(assigned) : assigned[i] >= assigned[i - 1]

\* A first pass that advanced twice and then retreated twice.
C8_Witness ==
    /\ spc = "split"
    /\ \E i \in 1..(Len(assigned_raw) - 2) :
           /\ assigned_raw[i] = 2
           /\ assigned_raw[i + 1] = 1
           /\ assigned_raw[i + 2] = 0
           /\ assigned[i + 2] = 2

\* C10: for a track that is not empty, the returned ranges in stage order
\* tile 0..n-1: the first starts at 0, each next one starts right after the
\* one before, the last ends at n-1.
C10_RangesTile ==
    (Called /\ NumRows > 0) =>
        LET present == {Ordinal(nm) : nm \in DOMAIN ranges}
            rng(o) == ranges[names[o + 1]]
        IN  /\ present # {}
            /\ \A o \in present :
                   IF \A q \in present : q >= o
                   THEN rng(o)[1] = 0
                   ELSE \E q \in present :
                            /\ q < o
                            /\ \A z \in present : ~(q < z /\ z < o)
                            /\ rng(o)[1] = rng(q)[2] + 1
            /\ \A o \in present : (\A q \in present : q <= o) => rng(o)[2] = NumRows - 1
            /\ \A i \in 0..(NumRows - 1) :
                   Cardinality({o \in present : rng(o)[1] <= i /\ i <= rng(o)[2]}) = 1

\* The fallback path with a stage left out and several rows per range.
C10_Witness ==
    /\ spc = "split"
    /\ NumRows >= 4
    /\ ranges # kw_ranges
    /\ Cardinality(DOMAIN ranges) = 4
    /\ \E nm \in DOMAIN ranges : ranges[nm][1] < ranges[nm][2]

\* C7: for a stage without a range, build_lesson_plan and
\* build_observation_note show the marker for it and do not raise (stated for
\* tracks without malformed record).
C7_AbsentStageUnrecognized ==
    (\A k \in DOMAIN subtitle_body : ~Malformed(subtitle_body[k])) =>
        /\ spc = "plan" =>
               /\ outcome = "returned"
               /\ \A i \in 1..5 : names[i] \notin DOMAIN ranges => plan[i] = Unrecognized
        /\ spc = "note" =>
               /\ outcome = "returned"
               /\ \A i \in 1..5 : names[i] \notin DOMAIN ranges => note[i] = Unrecognized

\* C9: a track with a malformed record (a content that is no string, or an
\* end before the start) ends every function that reads it in a validation
\* failure, and no range or label is produced.
C9_MalformedRejected ==
    (Called /\ \E k \in DOMAIN subtitle_body : Malformed(subtitle_body[k])) =>
        /\ outcome = "ValidationError"
        /\ ranges = <<>>
        /\ plan = <<>>
        /\ note = <<>>

====
